---- MODULE Spec2Model ----
(***************************************************************************)
(* Batch ingestion-and-aggregation pipeline of the inventory system:       *)
(*   src/utils.py      connection scope, ensure_table, ingest_file,        *)
(*                     ingest_all (single-folder flow)                     *)
(*   src/ingestion.py  ingest_table_from_csv, ingest_folder, main          *)
(*                     (multi-folder flow)                                 *)
(*   src/aggregate.py  AggregateConfig.QUERY, aggregate_and_store          *)
(*                                                                         *)
(* The relational store is the sink: `committed` is what other connections *)
(* see, `db` is the view of the one open connection (its uncommitted       *)
(* transaction included).  Closing a connection without commit discards    *)
(* the transaction.  Text cells are strings; DECIMAL(18,2) values are      *)
(* integers counting hundredths; a nullable SQL value is <<>> (NULL) or    *)
(* <<v>>.                                                                  *)
(***************************************************************************)
EXTENDS Integers, Sequences, FiniteSets, TLC

\* ------------------------------------------------------------------ bounds
MaxFiles == 2         \* directory entries of the "data" folder
MaxRuns == 2          \* successive runs of the chosen entry point
ChunkSize == 2        \* IngestionConfig.CHUNK_SIZE, scaled to the file sizes
BatchSize == 2        \* aggregate_and_store(batch_size), scaled likewise
MaxPurchases == 2     \* rows of the purchases staging table

VARIABLES
    unit,           \* entry point being run: "main", "ingest_all", "aggregate"
    fs,             \* the unchanged input set: folder -> [exists, entries]
    column_types,   \* the column_types argument: [given, types]
    committed,      \* the store as committed: table name -> [cols, types, rows]
    db,             \* the store as the open connection sees it
    pc,             \* position of the run
    folderIdx,      \* main: index into FOLDERS
    fileIdx,        \* index of the current directory entry / discovered file
    chunkIdx,       \* index of the next chunk of the current file
    df,             \* aggregate_and_store: the cleaned DataFrame
    inserted,       \* aggregate_and_store: rows inserted so far
    log,            \* statements the sink executed in the current unit
    failure,        \* why the current unit raised, "none" otherwise
    runs,           \* runs started so far
    startStore,     \* `committed` when the current unit opened its connection
    ingestHistory   \* `committed` right after each committed ingestion

vars == <<unit, fs, column_types, committed, db, pc, folderIdx, fileIdx,
          chunkIdx, df, inserted, log, failure, runs, startStore, ingestHistory>>

\* ----------------------------------------------------------- configuration
FOLDERS == <<"data", "logs">>
FILE_EXTENSION == ".csv"
TARGET_TABLE == "final_summary"
DefaultColumnType == "VARCHAR(MAX) NULL"

\* --------------------------------------------------------------- utilities
Min(a, b) == IF a < b THEN a ELSE b

Range(s) == {s[i] : i \in 1..Len(s)}

IndexOf(s, x) == CHOOSE i \in 1..Len(s) : s[i] = x

\* --------------------------------------------------------- file name model
\* File names of the "data" folder ("logs" adds ingestion.log), with what the
\* str/os.path calls make of them.
DataNames == {"a.csv", "a.CSV", "b.csv"}

\* fname.lower()
Lower(fname) == IF fname = "a.CSV" THEN "a.csv" ELSE fname

\* fname.endswith(ext), and the *ext glob, on the names above
EndsWith(fname, ext) == ext = ".csv" /\ fname \in {"a.csv", "b.csv"}

\* os.path.splitext(fname)[0] and Path.stem
Stem(fname) ==
    CASE fname \in {"a.csv", "a.CSV"} -> "a"
      [] fname = "b.csv" -> "b"
      [] OTHER -> "ingestion"

\* Position of a name in sorted() order of the paths (upper case sorts first).
NameRank(fname) ==
    CASE fname = "a.CSV" -> 1
      [] fname = "a.csv" -> 2
      [] fname = "b.csv" -> 3
      [] OTHER -> 4

\* c.strip().replace(" ", "_") on the header cells of the input sets
Sanitize(c) ==
    CASE c = " id" -> "id"
      [] c = "unit price" -> "unit_price"
      [] OTHER -> c

\* File bodies as lines of comma-separated cells; a zero-byte file has none.
RowsBody ==
    << <<" id", "unit price">>, <<"1", "9.50">>, <<"2", "">>, <<"3", "4.00">> >>

FileBodies == { <<>>, << <<"id">> >>, RowsBody }

DirEntry(name, lines) == [name |-> name, lines |-> lines]

\* What the "data" folder may hold.
DirEntries == {DirEntry(n, b) : n \in DataNames, b \in FileBodies}

LogFile == DirEntry("ingestion.log", << <<"INFO Starting ingestion process">> >>)

\* Listings of at most n entries with distinct names, in os.listdir order.
Listings(n) ==
    UNION { { s \in [1..k -> DirEntries] :
                \A i, j \in 1..k : i # j => s[i].name # s[j].name } : k \in 0..n }

Folder(present, entries) == [exists |-> present, entries |-> entries]

\* What the "logs" folder may be: missing, or holding the log file of earlier
\* runs, alone or beside a delimited file.
LogsFolders ==
    { Folder(FALSE, <<>>),
      Folder(TRUE, <<LogFile>>),
      Folder(TRUE, <<DirEntry("a.csv", RowsBody), LogFile>>),
      Folder(TRUE, <<LogFile, DirEntry("b.csv", << <<"id">> >>)>>) }

\* The input sets: "data" exists and holds at most MaxFiles entries.
FileSystems ==
    { [data |-> Folder(TRUE, d), logs |-> l] :
        d \in Listings(MaxFiles), l \in LogsFolders }

FolderOf(f, name) == IF name = "data" THEN f.data ELSE f.logs

\* The column_types argument: None, or a list of 0, 1 or 2 types (the headers
\* of the input sets have 1 or 2 columns).
ColumnTypeChoices ==
    { [given |-> FALSE, types |-> <<>>],
      [given |-> TRUE, types |-> <<>>],
      [given |-> TRUE, types |-> <<"VARCHAR(50) NULL">>],
      [given |-> TRUE, types |-> <<"VARCHAR(50) NULL", "VARCHAR(50) NULL">>] }

NoTypes == [given |-> FALSE, types |-> <<>>]

\* ------------------------------------------------------------------- store
Table(cols, types, rows) == [cols |-> cols, types |-> types, rows |-> rows]

EmptyStore == [t \in {} |-> Table(<<>>, <<>>, <<>>)]

Exists(store, t) == t \in DOMAIN store

\* IF OBJECT_ID(N't', 'U') IS NOT NULL DROP TABLE t
DropTable(store, t) == [x \in DOMAIN store \ {t} |-> store[x]]

\* CREATE TABLE t (col_defs); col_defs is a sequence of <<column, type>>
CreateTable(store, t, col_defs) ==
    [x \in DOMAIN store \cup {t} |->
        IF x = t
        THEN Table([i \in 1..Len(col_defs) |-> col_defs[i][1]],
                   [i \in 1..Len(col_defs) |-> col_defs[i][2]], <<>>)
        ELSE store[x]]

\* The sink accepts INSERT INTO t (columns) only if t exists and has them all.
InsertAccepted(store, t, columns) ==
    /\ Exists(store, t)
    /\ \A i \in 1..Len(columns) : columns[i] \in Range(store[t].cols)

\* cursor.executemany(insert_sql, rows): the rows are appended to t.
InsertRows(store, t, rows) ==
    [store EXCEPT ![t] = Table(@.cols, @.types, @.rows \o rows)]

\* zip(columns, column_types): pairs up to the shorter of the two
Zip(columns, types) ==
    [i \in 1..Min(Len(columns), Len(types)) |-> <<columns[i], types[i]>>]

\* ensure_table with the existing table kept (CREATE only when absent).
EnsureTableKeep(store, table_name, columns, types) ==
    LET given == IF types.given THEN types.types
                 ELSE [i \in 1..Len(columns) |-> DefaultColumnType]
        col_defs == Zip(columns, given)
    IN  [ok |-> col_defs # <<>>,
         col_defs |-> col_defs,
         store |-> IF col_defs = <<>> \/ Exists(store, table_name) THEN store
                   ELSE CreateTable(store, table_name, col_defs)]

\* ensure_table(cursor, table_name, columns, column_types): the DROP, then
\* the CREATE over zip(columns, column_types).  CREATE TABLE t () is a syntax
\* error of the sink: ok is FALSE and only the DROP has happened.
EnsureTable(store, table_name, columns, types) ==
    LET given == IF types.given THEN types.types
                 ELSE [i \in 1..Len(columns) |-> DefaultColumnType]
        col_defs == Zip(columns, given)
        dropped == DropTable(store, table_name)
    IN  [ok |-> col_defs # <<>>,
         col_defs |-> col_defs,
         store |-> IF col_defs = <<>> THEN dropped
                   ELSE CreateTable(dropped, table_name, col_defs)]

\* get_db_connection leaving its scope with the commit issued on every path.
ConnExitAlwaysCommit(store, work, raised) == work

\* get_db_connection leaving its scope: the commit after the yield is reached
\* only when the body did not raise; closing the connection discards an
\* uncommitted transaction.  The result is the store as committed afterwards.
ConnExit(store, work, raised) == IF raised THEN store ELSE work

\* --------------------------------------------------------- statement trace
\* One executed statement: the table; for the statements of ensure_table the
\* columns and column_types it was called with and the number of columns the
\* CREATE defined; for an INSERT the number of rows; the file it came from
\* (<<folder, entry>>, <<0, 0>> for the aggregation).
Stmt(op, t, columns, types, defined, nrows, src) ==
    [op |-> op, table |-> t, columns |-> columns, types |-> types,
     defined |-> defined, nrows |-> nrows, src |-> src]

CommitStmt == Stmt("COMMIT", "", <<>>, NoTypes, 0, 0, <<0, 0>>)

InsertStmt(t, columns, rows, src) ==
    Stmt("INSERT", t, columns, NoTypes, 0, Len(rows), src)

\* What ensure_table sent: r is its outcome.
EnsureTableStmts(t, columns, types, r, src) ==
    <<Stmt("DROP", t, columns, types, 0, 0, src)>>
    \o (IF r.ok
        THEN <<Stmt("CREATE", t, columns, types, Len(r.col_defs), 0, src)>>
        ELSE <<>>)

\* ------------------------------------------------------------ chunked read
HeaderOf(lines) == [i \in 1..Len(lines[1]) |-> Sanitize(lines[1][i])]

DataOf(lines) == Tail(lines)

\* pd.read_csv(..., chunksize=n): the data rows n at a time; a file with a
\* header and no data rows yields one chunk of no rows.
NumChunks(lines, n) ==
    IF Len(DataOf(lines)) = 0 THEN 1
    ELSE (Len(DataOf(lines)) + n - 1) \div n

Chunk(lines, n, k) ==
    SubSeq(DataOf(lines), (k - 1) * n + 1, Min(k * n, Len(DataOf(lines))))

\* ---------------------------------------------------------- file discovery
RECURSIVE SortByName(_)
SortByName(S) ==
    IF S = {} THEN <<>>
    ELSE LET m == CHOOSE x \in S : \A y \in S : NameRank(x.name) <= NameRank(y.name)
         IN  <<m>> \o SortByName(S \ {m})

\* list_csv_files: sorted(base.rglob("*.csv")), matched case-sensitively
list_csv_files(f) ==
    SortByName({e \in Range(f.data.entries) : EndsWith(e.name, FILE_EXTENSION)})

Discovered == list_csv_files(fs)

CurFolder == FolderOf(fs, FOLDERS[folderIdx])

\* The file the loops are at: (folder_path, fname) in main, file_path in ingest_all.
CurEntry ==
    IF unit = "main" THEN CurFolder.entries[fileIdx] ELSE Discovered[fileIdx]

Src == <<(IF unit = "main" THEN folderIdx ELSE 1), fileIdx>>

\* --------------------------------------------------------------- run state
Idle == pc \in {"start", "done", "failed"}

aggVars == <<df, inserted>>
inputVars == <<unit, fs, column_types>>

\* The unit raises: its connection scope is left without the commit.
Raise(cause) ==
    /\ pc' = "failed"
    /\ failure' = cause
    /\ committed' = ConnExit(committed, db, TRUE)
    /\ db' = ConnExit(committed, db, TRUE)

\* ------------------------------------------------ multi-folder flow (main)
\* main(): setup, then `with get_db_connection(conn_string) as cursor`.
StartMain ==
    /\ unit = "main" /\ Idle /\ runs < MaxRuns
    /\ pc' = "ingest"
    /\ runs' = runs + 1
    /\ folderIdx' = 1 /\ fileIdx' = 1 /\ chunkIdx' = 1
    /\ db' = committed /\ startStore' = committed
    /\ log' = <<>> /\ failure' = "none"
    /\ UNCHANGED <<inputVars, committed, aggVars, ingestHistory>>

InFolderLoop == unit = "main" /\ pc = "ingest" /\ folderIdx <= Len(FOLDERS)

\* ingest_folder: not os.path.isdir(folder_path) -> error logged, return.
IngestFolderMissing ==
    /\ InFolderLoop /\ ~CurFolder.exists
    /\ folderIdx' = folderIdx + 1 /\ fileIdx' = 1
    /\ UNCHANGED <<inputVars, committed, db, pc, chunkIdx, aggVars, log,
                   failure, runs, startStore, ingestHistory>>

\* ingest_folder: the for over os.listdir(folder_path) is exhausted.
IngestFolderDone ==
    /\ InFolderLoop /\ CurFolder.exists /\ fileIdx > Len(CurFolder.entries)
    /\ folderIdx' = folderIdx + 1 /\ fileIdx' = 1
    /\ UNCHANGED <<inputVars, committed, db, pc, chunkIdx, aggVars, log,
                   failure, runs, startStore, ingestHistory>>

InFileLoop == InFolderLoop /\ CurFolder.exists /\ fileIdx <= Len(CurFolder.entries)

\* fname.lower().endswith(file_extension.lower())
MatchesExtension(fname) == EndsWith(Lower(fname), Lower(FILE_EXTENSION))

\* ingest_folder: an entry with another extension is passed over.
SkipOtherExtension ==
    /\ InFileLoop /\ ~MatchesExtension(CurEntry.name)
    /\ fileIdx' = fileIdx + 1
    /\ UNCHANGED <<inputVars, committed, db, pc, folderIdx, chunkIdx, aggVars,
                   log, failure, runs, startStore, ingestHistory>>

\* ingest_table_from_csv: os.path.getsize(file_path) == 0 -> warning, return.
SkipEmptyFile ==
    /\ InFileLoop /\ MatchesExtension(CurEntry.name)
    /\ Len(CurEntry.lines) = 0
    /\ fileIdx' = fileIdx + 1
    /\ UNCHANGED <<inputVars, committed, db, pc, folderIdx, chunkIdx, aggVars,
                   log, failure, runs, startStore, ingestHistory>>

\* ingest_table_from_csv up to the chunk loop: header read and sanitized,
\* ensure_table, INSERT statement built.
ProvisionTable ==
    /\ InFileLoop /\ MatchesExtension(CurEntry.name)
    /\ Len(CurEntry.lines) > 0
    /\ LET t == Stem(CurEntry.name)
           columns == HeaderOf(CurEntry.lines)
           r == EnsureTable(db, t, columns, column_types)
       IN  /\ log' = log \o EnsureTableStmts(t, columns, column_types, r, Src)
           /\ IF r.ok
              THEN /\ db' = r.store
                   /\ pc' = "chunks" /\ chunkIdx' = 1
                   /\ UNCHANGED <<committed, failure>>
              ELSE /\ Raise("sink")
                   /\ UNCHANGED chunkIdx
    /\ UNCHANGED <<inputVars, folderIdx, fileIdx, aggVars, runs, startStore,
                   ingestHistory>>

ChunkPending == pc = "chunks" /\ chunkIdx <= NumChunks(CurEntry.lines, ChunkSize)

\* One pass of the chunk loop: cursor.executemany(insert_sql, rows).  Whether
\* the driver takes the empty chunk of a header-only file is left open: this
\* action takes it, SinkFail refuses it.
InsertChunk ==
    /\ ChunkPending
    /\ LET t == Stem(CurEntry.name)
           columns == HeaderOf(CurEntry.lines)
           rows == Chunk(CurEntry.lines, ChunkSize, chunkIdx)
       IN  /\ InsertAccepted(db, t, columns)
           /\ db' = InsertRows(db, t, rows)
           /\ log' = Append(log, InsertStmt(t, columns, rows, Src))
    /\ chunkIdx' = chunkIdx + 1
    /\ UNCHANGED <<inputVars, committed, pc, folderIdx, fileIdx, aggVars,
                   failure, runs, startStore, ingestHistory>>

\* The INSERT names a column the table was created without: the sink raises.
InsertRejected ==
    /\ ChunkPending
    /\ ~InsertAccepted(db, Stem(CurEntry.name), HeaderOf(CurEntry.lines))
    /\ Raise("sink")
    /\ UNCHANGED <<inputVars, folderIdx, fileIdx, chunkIdx, aggVars, log, runs,
                   startStore, ingestHistory>>

\* The chunk loop is exhausted: back to the loop over files.
FileDone ==
    /\ pc = "chunks" /\ ~ChunkPending
    /\ pc' = "ingest" /\ fileIdx' = fileIdx + 1
    /\ UNCHANGED <<inputVars, committed, db, folderIdx, chunkIdx, aggVars, log,
                   failure, runs, startStore, ingestHistory>>

\* main: cursor.connection.commit() after all folders, the scope is left, and
\* aggregate_and_store is called.
CommitMain ==
    /\ unit = "main" /\ pc = "ingest" /\ folderIdx > Len(FOLDERS)
    /\ committed' = ConnExit(committed, db, FALSE)
    /\ log' = Append(log, CommitStmt)
    /\ ingestHistory' = Append(ingestHistory, committed')
    /\ pc' = "agg_start"
    /\ UNCHANGED <<inputVars, db, folderIdx, fileIdx, chunkIdx, aggVars,
                   failure, runs, startStore>>

\* ---------------------------------------- single-folder flow (ingest_all)
\* ingest_all: no file discovered -> warning, return without a connection.
IngestAllNoFiles ==
    /\ unit = "ingest_all" /\ Idle /\ runs < MaxRuns
    /\ Discovered = <<>>
    /\ pc' = "done" /\ runs' = runs + 1
    /\ log' = <<>> /\ failure' = "none" /\ startStore' = committed
    /\ db' = committed
    /\ UNCHANGED <<inputVars, committed, folderIdx, fileIdx, chunkIdx, aggVars,
                   ingestHistory>>

\* ingest_all: `with get_db_connection(conn_string, autocommit=False)`.
StartIngestAll ==
    /\ unit = "ingest_all" /\ Idle /\ runs < MaxRuns
    /\ Discovered # <<>>
    /\ pc' = "ingest" /\ runs' = runs + 1
    /\ folderIdx' = 1 /\ fileIdx' = 1 /\ chunkIdx' = 1
    /\ db' = committed /\ startStore' = committed
    /\ log' = <<>> /\ failure' = "none"
    /\ UNCHANGED <<inputVars, committed, aggVars, ingestHistory>>

InFileList == unit = "ingest_all" /\ pc = "ingest" /\ fileIdx <= Len(Discovered)

\* ingest_file on a zero-byte file: pd.read_csv(file_path, nrows=0) raises
\* EmptyDataError before anything is sent to the sink.
IngestFileEmpty ==
    /\ InFileList /\ Len(CurEntry.lines) = 0
    /\ Raise("EmptyDataError")
    /\ UNCHANGED <<inputVars, folderIdx, fileIdx, chunkIdx, aggVars, log, runs,
                   startStore, ingestHistory>>

\* ingest_file up to the chunk loop: header read, ensure_table, INSERT built.
IngestFileProvision ==
    /\ InFileList /\ Len(CurEntry.lines) > 0
    /\ LET t == Stem(CurEntry.name)
           columns == HeaderOf(CurEntry.lines)
           r == EnsureTable(db, t, columns, column_types)
       IN  /\ log' = log \o EnsureTableStmts(t, columns, column_types, r, Src)
           /\ IF r.ok
              THEN /\ db' = r.store
                   /\ pc' = "chunks" /\ chunkIdx' = 1
                   /\ UNCHANGED <<committed, failure>>
              ELSE /\ Raise("sink")
                   /\ UNCHANGED chunkIdx
    /\ UNCHANGED <<inputVars, folderIdx, fileIdx, aggVars, runs, startStore,
                   ingestHistory>>

\* ingest_all: the with-block ends, get_db_connection commits.
CommitIngestAll ==
    /\ unit = "ingest_all" /\ pc = "ingest" /\ fileIdx > Len(Discovered)
    /\ committed' = ConnExit(committed, db, FALSE)
    /\ log' = Append(log, CommitStmt)
    /\ ingestHistory' = Append(ingestHistory, committed')
    /\ pc' = "done"
    /\ UNCHANGED <<inputVars, db, folderIdx, fileIdx, chunkIdx, aggVars,
                   failure, runs, startStore>>

\* ------------------------------------------------------------- SQL values
Null == <<>>

IsNull(x) == Len(x) = 0

\* Literals of the staging cells that TRY_CAST(... AS BIGINT) accepts.
BigintLiterals ==
    ("0" :> 0) @@ ("1" :> 1) @@ ("2" :> 2) @@ ("3" :> 3) @@ ("4" :> 4)
    @@ ("5" :> 5) @@ ("100" :> 100) @@ ("200" :> 200) @@ ("750" :> 750)
    @@ ("1000" :> 1000)

\* Literals with a decimal point that TRY_CAST(... AS DECIMAL(18,2)) accepts,
\* in hundredths; it accepts the integer literals as well.
DecimalLiterals ==
    ("0.00" :> 0) @@ ("0.50" :> 50) @@ ("1.00" :> 100) @@ ("3.00" :> 300)
    @@ ("10.00" :> 1000) @@ ("12.00" :> 1200) @@ ("15.00" :> 1500)
    @@ ("20.00" :> 2000) @@ ("25.00" :> 2500) @@ ("50.00" :> 5000)
    @@ ("80.00" :> 8000) @@ ("-5.00" :> -500)

TRY_CAST_BIGINT(s) ==
    IF s \in DOMAIN BigintLiterals THEN <<BigintLiterals[s]>> ELSE Null

TRY_CAST_DECIMAL(s) ==
    IF s \in DOMAIN DecimalLiterals THEN <<DecimalLiterals[s]>>
    ELSE IF s \in DOMAIN BigintLiterals THEN <<100 * BigintLiterals[s]>>
    ELSE Null

\* LTRIM(RTRIM(s)) on the vendor names of the staging rows
Trim(s) == IF s = " Acme " THEN "Acme" ELSE s

COALESCE(x, d) == IF IsNull(x) THEN <<d>> ELSE x

\* a - b with NULL propagated
SqlSub(a, b) == IF IsNull(a) \/ IsNull(b) THEN Null ELSE <<a[1] - b[1]>>

\* x = 0 as a WHEN condition: true only of a non-NULL zero
IsZero(x) == ~IsNull(x) /\ x[1] = 0

\* x > 0 as a WHERE condition: true only of a non-NULL positive value
IsPositive(x) == ~IsNull(x) /\ x[1] > 0

\* Integer quotient rounded toward zero.
TruncDiv(n, d) ==
    IF (n >= 0) = (d > 0) THEN (IF n >= 0 THEN n \div d ELSE (-n) \div (-d))
    ELSE -((IF n >= 0 THEN n ELSE -n) \div (IF d > 0 THEN d ELSE -d))

\* n / d, the quotient kept in units of 1/scale: NULL if an operand is NULL,
\* the sink's divide-by-zero error if d is a non-NULL zero.
SqlDiv(n, d, scale) ==
    IF IsNull(n) \/ IsNull(d) THEN [error |-> FALSE, value |-> Null]
    ELSE IF d[1] = 0 THEN [error |-> TRUE, value |-> Null]
    ELSE [error |-> FALSE, value |-> <<TruncDiv(n[1] * scale, d[1])>>]

NoError(v) == [error |-> FALSE, value |-> v]

RECURSIVE Total(_, _)
Total(f, S) ==
    IF S = {} THEN 0
    ELSE LET i == CHOOSE x \in S : TRUE IN f[i][1] + Total(f, S \ {i})

\* SUM(...) over the rows of a group: NULLs are skipped, all NULL gives NULL.
SqlSum(f) ==
    LET nn == {i \in DOMAIN f : ~IsNull(f[i])}
    IN  IF nn = {} THEN Null ELSE <<Total(f, nn)>>

Cell(tbl, i, col) == tbl.rows[i][IndexOf(tbl.cols, col)]

RowIds(tbl) == 1..Len(tbl.rows)

\* ----------------------------------------------------------- staging data
PurchasesCols ==
    <<"VendorNumber", "VendorName", "Brand", "Description", "PurchasePrice",
      "Quantity", "Dollars">>
PurchasePricesCols == <<"Brand", "Price", "Volume">>
SalesCols ==
    <<"VendorNo", "Brand", "SalesQuantity", "SalesDollars", "SalesPrice",
      "ExciseTax">>
VendorInvoiceCols == <<"VendorNumber", "Freight">>

PurchaseCatalog ==
    << <<"1", "Acme", "100", "Widget", "10.00", "5", "50.00">>,
       <<"1", " Acme ", "100", "Widget", "10.00", "0", "0.00">>,
       <<"1", "Acme", "100", "Widget", "10.00", "q", "d">>,
       <<"2", "Bolt", "200", "Gadget", "20.00", "3", "-5.00">>,
       <<"x", "Acme", "100", "Widget", "10.00", "5", "50.00">>,
       <<"1", "Acme", "100", "Widget", "0.00", "5", "50.00">> >>

\* The purchases tables of at most n rows; a table is a bag of rows, so one
\* order of each bag is enough.
PurchaseTables(n) ==
    UNION { { [i \in 1..k |-> PurchaseCatalog[ix[i]]] :
                ix \in { s \in [1..k -> 1..Len(PurchaseCatalog)] :
                           \A i \in 1..k - 1 : s[i] <= s[i + 1] } } : k \in 0..n }

PriceA == <<"100", "12.00", "750">>
PriceB == <<"100", "15.00", "750">>
PriceC == <<"200", "25.00", "1000">>
PriceD == <<"100", "p", "v">>

PurchasePricesTables ==
    { <<>>, <<PriceA, PriceA>>, <<PriceA, PriceB>>, <<PriceA, PriceC>>,
      <<PriceD>> }

SalesTables ==
    { <<>>,
      << <<"1", "100", "4", "80.00", "20.00", "1.00">>,
         <<"2", "200", "1", "10.00", "10.00", "0.50">> >>,
      << <<"1", "100", "0", "0.00", "0.00", "0.00">> >>,
      << <<"1", "100", "s", "s", "s", "s">>,
         <<"x", "100", "4", "80.00", "20.00", "1.00">> >> }

VendorInvoiceTables ==
    { <<>>,
      << <<"1", "3.00">>, <<"y", "3.00">> >>,
      << <<"1", "f">> >> }

Staging(cols, rows) ==
    Table(cols, [i \in 1..Len(cols) |-> DefaultColumnType], rows)

StagingStore(p, pp, s, v) ==
    [t \in {"purchases", "purchase_prices", "sales", "vendor_invoice"} |->
        CASE t = "purchases" -> Staging(PurchasesCols, p)
          [] t = "purchase_prices" -> Staging(PurchasePricesCols, pp)
          [] t = "sales" -> Staging(SalesCols, s)
          [] OTHER -> Staging(VendorInvoiceCols, v)]

\* The query names these tables and columns; the sink raises if one is missing.
QueryValid(store) ==
    /\ \A t \in {"purchases", "purchase_prices", "sales", "vendor_invoice"} :
          Exists(store, t)
    /\ Range(PurchasesCols) \subseteq Range(store["purchases"].cols)
    /\ Range(PurchasePricesCols) \subseteq Range(store["purchase_prices"].cols)
    /\ Range(SalesCols) \subseteq Range(store["sales"].cols)
    /\ Range(VendorInvoiceCols) \subseteq Range(store["vendor_invoice"].cols)

\* ------------------------------------------------- AggregateConfig.QUERY
\* WITH FreightSummary AS (...): one row per coerced vendor number.
FreightSummary(store) ==
    LET t == store["vendor_invoice"]
        vendor(i) == TRY_CAST_BIGINT(Cell(t, i, "VendorNumber"))
        kept == {i \in RowIds(t) : ~IsNull(vendor(i))}
    IN  { [VendorNumber |-> k,
           FreightCost |->
              SqlSum([i \in {x \in kept : vendor(x) = k} |->
                         TRY_CAST_DECIMAL(Cell(t, i, "Freight"))])] :
          k \in {vendor(i) : i \in kept} }

\* The rows of `purchases p JOIN purchase_prices pp ON p.Brand = pp.Brand`
\* that pass the WHERE clause, as pairs of row numbers.
PurchaseJoin(store) ==
    LET p == store["purchases"]
        pp == store["purchase_prices"]
    IN  { x \in RowIds(p) \X RowIds(pp) :
            /\ Cell(p, x[1], "Brand") = Cell(pp, x[2], "Brand")
            /\ ~IsNull(TRY_CAST_BIGINT(Cell(p, x[1], "VendorNumber")))
            /\ ~IsNull(TRY_CAST_BIGINT(Cell(p, x[1], "Brand")))
            /\ IsPositive(TRY_CAST_DECIMAL(Cell(p, x[1], "PurchasePrice"))) }

\* The GROUP BY expressions of PurchaseSummary for one joined pair.
PurchaseKey(store, x) ==
    LET p == store["purchases"]
        pp == store["purchase_prices"]
    IN  [VendorNumber |-> TRY_CAST_BIGINT(Cell(p, x[1], "VendorNumber")),
         VendorName |-> <<Trim(Cell(p, x[1], "VendorName"))>>,
         Brand |-> TRY_CAST_BIGINT(Cell(p, x[1], "Brand")),
         Description |-> <<Cell(p, x[1], "Description")>>,
         PurchasePrice |-> TRY_CAST_DECIMAL(Cell(p, x[1], "PurchasePrice")),
         ActualPrice |-> TRY_CAST_DECIMAL(Cell(pp, x[2], "Price")),
         VolumeText |-> Cell(pp, x[2], "Volume")]

\* PurchaseSummary AS (...): one row per group of joined pairs.
PurchaseSummary(store) ==
    LET p == store["purchases"]
        joined == PurchaseJoin(store)
    IN  { [key |-> k,
           Volume |-> TRY_CAST_BIGINT(k.VolumeText),
           TotalPurchaseQuantity |->
              SqlSum([x \in {y \in joined : PurchaseKey(store, y) = k} |->
                         TRY_CAST_BIGINT(Cell(p, x[1], "Quantity"))]),
           TotalPurchaseDollars |->
              SqlSum([x \in {y \in joined : PurchaseKey(store, y) = k} |->
                         TRY_CAST_DECIMAL(Cell(p, x[1], "Dollars"))])] :
          k \in {PurchaseKey(store, x) : x \in joined} }

\* SalesSummary AS (...): one row per coerced (vendor, brand).
SalesSummary(store) ==
    LET t == store["sales"]
        key(i) == <<TRY_CAST_BIGINT(Cell(t, i, "VendorNo")),
                    TRY_CAST_BIGINT(Cell(t, i, "Brand"))>>
        kept == {i \in RowIds(t) : ~IsNull(key(i)[1]) /\ ~IsNull(key(i)[2])}
        members(k) == {x \in kept : key(x) = k}
    IN  { [VendorNumber |-> k[1],
           Brand |-> k[2],
           TotalSalesQuantity |->
              SqlSum([i \in members(k) |->
                         TRY_CAST_BIGINT(Cell(t, i, "SalesQuantity"))]),
           TotalSalesDollars |->
              SqlSum([i \in members(k) |->
                         TRY_CAST_DECIMAL(Cell(t, i, "SalesDollars"))]),
           TotalSalesPrice |->
              SqlSum([i \in members(k) |->
                         TRY_CAST_DECIMAL(Cell(t, i, "SalesPrice"))]),
           TotalExciseTax |->
              SqlSum([i \in members(k) |->
                         TRY_CAST_DECIMAL(Cell(t, i, "ExciseTax"))])] :
          k \in {key(i) : i \in kept} }

\* The row an outer join supplies when nothing matches.
NullSales ==
    [VendorNumber |-> Null, Brand |-> Null, TotalSalesQuantity |-> Null,
     TotalSalesDollars |-> Null, TotalSalesPrice |-> Null,
     TotalExciseTax |-> Null]

NullFreight == [VendorNumber |-> Null, FreightCost |-> Null]

\* ps JOIN ss (inner): purchase groups without sales are dropped.
InnerJoinSales(psRows, ssRows) ==
    { <<ps, ss>> \in psRows \X ssRows :
        ps.key.VendorNumber = ss.VendorNumber /\ ps.key.Brand = ss.Brand }

\* FROM PurchaseSummary ps LEFT JOIN SalesSummary ss
\*   ON ps.VendorNumber = ss.VendorNumber AND ps.Brand = ss.Brand
LeftJoinSales(psRows, ssRows) ==
    LET matches(ps) ==
            { ss \in ssRows :
                ps.key.VendorNumber = ss.VendorNumber /\ ps.key.Brand = ss.Brand }
    IN  UNION { IF matches(ps) = {} THEN {<<ps, NullSales>>}
                ELSE {<<ps, ss>> : ss \in matches(ps)} : ps \in psRows }

\* ... LEFT JOIN FreightSummary fs ON ps.VendorNumber = fs.VendorNumber
LeftJoinFreight(pairs, fsRows) ==
    LET matches(ps) == {f \in fsRows : ps.key.VendorNumber = f.VendorNumber}
    IN  UNION { IF matches(x[1]) = {} THEN {<<x[1], x[2], NullFreight>>}
                ELSE {<<x[1], x[2], f>> : f \in matches(x[1])} : x \in pairs }

\* The ProfitMargin expression without its WHEN ... = 0 guard.
ProfitMarginUnguarded(ssDollars, psDollars) ==
    SqlDiv(SqlSub(COALESCE(ssDollars, 0), psDollars),
           COALESCE(ssDollars, 0), 10000)

\* CASE WHEN COALESCE(ss.TotalSalesDollars,0) = 0 THEN 0
\*      ELSE (COALESCE(ss.TotalSalesDollars,0) - ps.TotalPurchaseDollars)
\*           / COALESCE(ss.TotalSalesDollars,1) * 100 END, in hundredths
ProfitMargin(ssDollars, psDollars) ==
    IF IsZero(COALESCE(ssDollars, 0)) THEN NoError(<<0>>)
    ELSE SqlDiv(SqlSub(COALESCE(ssDollars, 0), psDollars),
                COALESCE(ssDollars, 100), 10000)

\* CASE WHEN ps.TotalPurchaseQuantity = 0 THEN 0
\*      ELSE COALESCE(ss.TotalSalesQuantity,0) * 1.0 / ps.TotalPurchaseQuantity
\* END, in hundredths
StockTurnover(ssQuantity, psQuantity) ==
    IF IsZero(psQuantity) THEN NoError(<<0>>)
    ELSE SqlDiv(COALESCE(ssQuantity, 0), psQuantity, 100)

\* CASE WHEN ps.TotalPurchaseDollars = 0 THEN 0
\*      ELSE COALESCE(ss.TotalSalesDollars,0) / ps.TotalPurchaseDollars END,
\* in hundredths
SalesToPurchaseRatio(ssDollars, psDollars) ==
    IF IsZero(psDollars) THEN NoError(<<0>>)
    ELSE SqlDiv(COALESCE(ssDollars, 0), psDollars, 100)

\* The select list of the final SELECT for one joined row.
SelectList(ps, ss, fr) ==
    [VendorNumber |-> ps.key.VendorNumber,
     VendorName |-> ps.key.VendorName,
     Brand |-> ps.key.Brand,
     Description |-> ps.key.Description,
     PurchasePrice |-> ps.key.PurchasePrice,
     ActualPrice |-> ps.key.ActualPrice,
     Volume |-> ps.Volume,
     TotalPurchaseQuantity |-> ps.TotalPurchaseQuantity,
     TotalPurchaseDollars |-> ps.TotalPurchaseDollars,
     TotalSalesQuantity |-> COALESCE(ss.TotalSalesQuantity, 0),
     TotalSalesDollars |-> COALESCE(ss.TotalSalesDollars, 0),
     TotalSalesPrice |-> COALESCE(ss.TotalSalesPrice, 0),
     TotalExciseTax |-> COALESCE(ss.TotalExciseTax, 0),
     FreightCost |-> COALESCE(fr.FreightCost, 0),
     GrossProfit |->
        SqlSub(COALESCE(ss.TotalSalesDollars, 0), ps.TotalPurchaseDollars),
     ProfitMargin |->
        ProfitMargin(ss.TotalSalesDollars, ps.TotalPurchaseDollars).value,
     StockTurnover |->
        StockTurnover(ss.TotalSalesQuantity, ps.TotalPurchaseQuantity).value,
     SalesToPurchaseRatio |->
        SalesToPurchaseRatio(ss.TotalSalesDollars,
                             ps.TotalPurchaseDollars).value,
     VolumeText |-> ps.key.VolumeText,
     error |->
        \/ ProfitMargin(ss.TotalSalesDollars, ps.TotalPurchaseDollars).error
        \/ StockTurnover(ss.TotalSalesQuantity,
                         ps.TotalPurchaseQuantity).error
        \/ SalesToPurchaseRatio(ss.TotalSalesDollars,
                                ps.TotalPurchaseDollars).error]

\* The rows of the final SELECT before ORDER BY; VolumeText (the grouping
\* text of pp.Volume) keeps apart rows of groups that print alike.
FinalSelect(store) ==
    { SelectList(x[1], x[2], x[3]) :
        x \in LeftJoinFreight(
                 LeftJoinSales(PurchaseSummary(store), SalesSummary(store)),
                 FreightSummary(store)) }

\* a may stand before b under ORDER BY ... DESC: NULL sorts as the lowest value.
DescOrdered(a, b) == IsNull(b) \/ (~IsNull(a) /\ a[1] >= b[1])

RECURSIVE OrderByDesc(_)
\* ORDER BY ps.TotalPurchaseDollars DESC: every order of the rows the sink may
\* return (rows that tie come in any order).
OrderByDesc(S) ==
    IF S = {} THEN {<<>>}
    ELSE UNION { { <<m>> \o rest : rest \in OrderByDesc(S \ {m}) } :
                 m \in { x \in S : \A y \in S :
                           DescOrdered(x.TotalPurchaseDollars,
                                       y.TotalPurchaseDollars) } }

SummaryColumns ==
    <<"VendorNumber", "VendorName", "Brand", "Description", "PurchasePrice",
      "ActualPrice", "Volume", "TotalPurchaseQuantity", "TotalPurchaseDollars",
      "TotalSalesQuantity", "TotalSalesDollars", "TotalSalesPrice",
      "TotalExciseTax", "FreightCost", "GrossProfit", "ProfitMargin",
      "StockTurnover", "SalesToPurchaseRatio">>

SummaryTypes ==
    <<"BIGINT NULL", "VARCHAR(MAX) NULL", "BIGINT NULL", "VARCHAR(MAX) NULL",
      "DECIMAL(18,2) NULL", "DECIMAL(18,2) NULL", "BIGINT NULL",
      "BIGINT NULL", "DECIMAL(18,2) NULL", "BIGINT NULL",
      "DECIMAL(18,2) NULL", "DECIMAL(18,2) NULL", "DECIMAL(18,2) NULL",
      "DECIMAL(18,2) NULL", "DECIMAL(18,2) NULL", "DECIMAL(18,2) NULL",
      "DECIMAL(18,2) NULL", "DECIMAL(18,2) NULL">>

\* pd.read_sql_query: the result rows as tuples in select-list order.
Materialize(ordered) ==
    [i \in 1..Len(ordered) |->
        [c \in 1..Len(SummaryColumns) |-> ordered[i][SummaryColumns[c]]]]

\* df.fillna(0): every missing value becomes 0, the others stay.
Fillna(frame) ==
    [i \in 1..Len(frame) |->
        [c \in 1..Len(frame[i]) |->
            IF IsNull(frame[i][c]) THEN 0 ELSE frame[i][c][1]]]

Field(row, col) == row[IndexOf(SummaryColumns, col)]

\* ---------------------------------------------------- aggregate_and_store
\* The query raises: a table or column it names is missing, or a division by
\* zero is evaluated.
QueryRaises(store) ==
    IF QueryValid(store) THEN \E r \in FinalSelect(store) : r.error ELSE TRUE

\* main: aggregate_and_store(...) after the ingestion scope; it opens its own
\* connection.
AggOpen ==
    /\ unit = "main" /\ pc = "agg_start"
    /\ pc' = "agg_query"
    /\ db' = committed /\ startStore' = committed
    /\ log' = <<>> /\ failure' = "none"
    /\ df' = <<>> /\ inserted' = 0
    /\ UNCHANGED <<inputVars, committed, folderIdx, fileIdx, chunkIdx, runs,
                   ingestHistory>>

\* aggregate.py run on its own: aggregate_and_store() with the defaults.
StartAggregate ==
    /\ unit = "aggregate" /\ Idle /\ runs < MaxRuns
    /\ pc' = "agg_query" /\ runs' = runs + 1
    /\ db' = committed /\ startStore' = committed
    /\ log' = <<>> /\ failure' = "none"
    /\ df' = <<>> /\ inserted' = 0
    /\ UNCHANGED <<inputVars, committed, folderIdx, fileIdx, chunkIdx,
                   ingestHistory>>

\* 1) pd.read_sql_query(QUERY, conn)  2) df.fillna(0, inplace=True)
AggQuery ==
    /\ pc = "agg_query" /\ ~QueryRaises(db)
    /\ \E ordered \in OrderByDesc(FinalSelect(db)) :
          df' = Fillna(Materialize(ordered))
    /\ pc' = "agg_table"
    /\ UNCHANGED <<inputVars, committed, db, folderIdx, fileIdx, chunkIdx,
                   inserted, log, failure, runs, startStore, ingestHistory>>

\* pd.read_sql_query raises; the except clause logs and re-raises.
AggQueryRaises ==
    /\ pc = "agg_query" /\ QueryRaises(db)
    /\ Raise(IF QueryValid(db) THEN "div_by_zero" ELSE "sink")
    /\ UNCHANGED <<inputVars, folderIdx, fileIdx, chunkIdx, aggVars, log, runs,
                   startStore, ingestHistory>>

\* 3) ensure_table(cursor, target_table, columns, types)
AggEnsureTable ==
    /\ pc = "agg_table"
    /\ LET types == [given |-> TRUE, types |-> SummaryTypes]
           r == EnsureTable(db, TARGET_TABLE, SummaryColumns, types)
       IN  /\ db' = r.store
           /\ log' = log \o EnsureTableStmts(TARGET_TABLE, SummaryColumns,
                                             types, r, <<0, 0>>)
    /\ pc' = "agg_insert" /\ inserted' = 0
    /\ UNCHANGED <<inputVars, committed, folderIdx, fileIdx, chunkIdx, df,
                   failure, runs, startStore, ingestHistory>>

\* 4) one pass of `while inserted < total_rows`
AggInsertBatch ==
    /\ pc = "agg_insert" /\ inserted < Len(df)
    /\ LET batch == SubSeq(df, inserted + 1, Min(inserted + BatchSize, Len(df)))
       IN  /\ InsertAccepted(db, TARGET_TABLE, SummaryColumns)
           /\ db' = InsertRows(db, TARGET_TABLE, batch)
           /\ log' = Append(log, InsertStmt(TARGET_TABLE, SummaryColumns,
                                            batch, <<0, 0>>))
           /\ inserted' = inserted + Len(batch)
    /\ UNCHANGED <<inputVars, committed, pc, folderIdx, fileIdx, chunkIdx, df,
                   failure, runs, startStore, ingestHistory>>

\* conn.commit() once the loop is done; the scope is left.
AggCommit ==
    /\ pc = "agg_insert" /\ inserted >= Len(df)
    /\ committed' = ConnExit(committed, db, FALSE)
    /\ log' = Append(log, CommitStmt)
    /\ pc' = "done"
    /\ UNCHANGED <<inputVars, db, folderIdx, fileIdx, chunkIdx, aggVars,
                   failure, runs, startStore, ingestHistory>>

\* ------------------------------------------------------------ sink errors
\* The next step of the unit sends a statement to the sink.
StatementPending ==
    \/ ChunkPending
    \/ pc \in {"agg_query", "agg_table", "agg_insert"}
    \/ /\ unit = "main" /\ pc = "ingest"
       /\ \/ folderIdx > Len(FOLDERS)
          \/ /\ InFileLoop /\ MatchesExtension(CurEntry.name)
             /\ Len(CurEntry.lines) > 0
    \/ /\ unit = "ingest_all" /\ pc = "ingest"
       /\ \/ fileIdx > Len(Discovered)
          \/ InFileList /\ Len(CurEntry.lines) > 0

\* The sink raises on that statement (connection lost, constraint, timeout):
\* the exception leaves the connection scope.
SinkFail ==
    /\ StatementPending
    /\ Raise("sink")
    /\ UNCHANGED <<inputVars, folderIdx, fileIdx, chunkIdx, aggVars, log, runs,
                   startStore, ingestHistory>>

\* ---------------------------------------------------------- specification
InitRun ==
    /\ db = committed /\ startStore = committed
    /\ pc = "start"
    /\ folderIdx = 1 /\ fileIdx = 1 /\ chunkIdx = 1
    /\ df = <<>> /\ inserted = 0
    /\ log = <<>> /\ failure = "none" /\ runs = 0
    /\ ingestHistory = <<>>

\* An ingestion entry point over an input set, into an empty store.
InitIngest ==
    /\ unit \in {"main", "ingest_all"}
    /\ fs \in FileSystems
    /\ unit = "ingest_all" => ~fs.logs.exists
    /\ column_types \in ColumnTypeChoices
    /\ committed = EmptyStore
    /\ InitRun

\* The aggregation alone, over staging tables already ingested.
InitAggregate ==
    /\ unit = "aggregate"
    /\ fs = [data |-> Folder(TRUE, <<>>), logs |-> Folder(FALSE, <<>>)]
    /\ column_types = NoTypes
    /\ \E p \in PurchaseTables(MaxPurchases), pp \in PurchasePricesTables,
          s \in SalesTables, v \in VendorInvoiceTables :
          committed = StagingStore(p, pp, s, v)
    /\ InitRun

Init == InitIngest \/ InitAggregate

Next ==
    \/ StartMain
    \/ IngestFolderMissing
    \/ IngestFolderDone
    \/ SkipOtherExtension
    \/ SkipEmptyFile
    \/ ProvisionTable
    \/ InsertChunk
    \/ InsertRejected
    \/ FileDone
    \/ CommitMain
    \/ IngestAllNoFiles
    \/ StartIngestAll
    \/ IngestFileEmpty
    \/ IngestFileProvision
    \/ CommitIngestAll
    \/ AggOpen
    \/ StartAggregate
    \/ AggQuery
    \/ AggQueryRaises
    \/ AggEnsureTable
    \/ AggInsertBatch
    \/ AggCommit
    \/ SinkFail

Spec == Init /\ [][Next]_vars

\* ------------------------------------------------------------ observations
\* The rows of the summary table as the open connection sees them.
SummaryRows ==
    IF Exists(db, TARGET_TABLE) THEN db[TARGET_TABLE].rows ELSE <<>>

\* df holds the cleaned result of this run's query over the staging tables.
ResultReady == pc \in {"agg_table", "agg_insert"}

\* The directory entry a statement of the ingestion came from.
EntryAt(src) ==
    IF unit = "main" THEN FolderOf(fs, FOLDERS[src[1]]).entries[src[2]]
    ELSE Discovered[src[2]]

FromFile(stmt) == stmt.src # <<0, 0>>

\* Purchases row i passes the WHERE clause of PurchaseSummary.
Qualifies(i) ==
    LET p == db["purchases"]
    IN  /\ ~IsNull(TRY_CAST_BIGINT(Cell(p, i, "VendorNumber")))
        /\ ~IsNull(TRY_CAST_BIGINT(Cell(p, i, "Brand")))
        /\ IsPositive(TRY_CAST_DECIMAL(Cell(p, i, "PurchasePrice")))

\* Some purchase_prices row carries the Brand of purchases row i.
HasPrice(i) ==
    \E j \in RowIds(db["purchase_prices"]) :
        Cell(db["purchases"], i, "Brand") = Cell(db["purchase_prices"], j, "Brand")

VendorOf(i) == TRY_CAST_BIGINT(Cell(db["purchases"], i, "VendorNumber"))[1]

BrandOf(i) == TRY_CAST_BIGINT(Cell(db["purchases"], i, "Brand"))[1]

\* The rows of df for the (vendor, brand) of purchases row i.
RowsFor(i) ==
    { k \in 1..Len(df) :
        /\ Field(df[k], "VendorNumber") = VendorOf(i)
        /\ Field(df[k], "Brand") = BrandOf(i) }

\* No sales row and no vendor_invoice row matches purchases row i.
NoSalesNoFreight(i) ==
    /\ \A r \in SalesSummary(db) :
          ~(r.VendorNumber = <<VendorOf(i)>> /\ r.Brand = <<BrandOf(i)>>)
    /\ \A r \in FreightSummary(db) : r.VendorNumber # <<VendorOf(i)>>

SalesAndFreightZero(k) ==
    /\ Field(df[k], "TotalSalesQuantity") = 0
    /\ Field(df[k], "TotalSalesDollars") = 0
    /\ Field(df[k], "TotalSalesPrice") = 0
    /\ Field(df[k], "TotalExciseTax") = 0
    /\ Field(df[k], "FreightCost") = 0

\* The purchases rows that belong to the group of row k of df: they qualify
\* and their grouping expressions are the row's.
GroupMembers(k) ==
    LET p == db["purchases"]
    IN  { i \in RowIds(p) :
            /\ Qualifies(i)
            /\ Field(df[k], "VendorNumber") = VendorOf(i)
            /\ Field(df[k], "VendorName") = Trim(Cell(p, i, "VendorName"))
            /\ Field(df[k], "Brand") = BrandOf(i)
            /\ Field(df[k], "Description") = Cell(p, i, "Description")
            /\ Field(df[k], "PurchasePrice") =
                  TRY_CAST_DECIMAL(Cell(p, i, "PurchasePrice"))[1] }

\* The sums of the coerced Quantity and Dollars over those rows, each taken
\* once; 0 if none coerces (as df shows it after fillna).
QuantityOnce(k) ==
    COALESCE(SqlSum([i \in GroupMembers(k) |->
                        TRY_CAST_BIGINT(Cell(db["purchases"], i, "Quantity"))]),
             0)[1]

DollarsOnce(k) ==
    COALESCE(SqlSum([i \in GroupMembers(k) |->
                        TRY_CAST_DECIMAL(Cell(db["purchases"], i, "Dollars"))]),
             0)[1]

\* ------------------------------------------------------------------ claims

\* C1: when a unit of work (the ingestion scope of main, ingest_all,
\* aggregate_and_store) raises before its commit, no commit has been issued on
\* its connection and every table exists and holds exactly what it did when
\* the unit started.
C1_FailedUnitLeavesStoreUnchanged ==
    pc = "failed" =>
        /\ committed = startStore
        /\ \A i \in 1..Len(log) : log[i].op # "COMMIT"

\* C1 witness: a unit failed after it had inserted rows, over a store that
\* already held tables.
C1_Witness ==
    /\ pc = "failed"
    /\ DOMAIN startStore # {}
    /\ \E i \in 1..Len(log) : log[i].op = "INSERT" /\ log[i].nrows > 0

\* C2 (as claimed): no CREATE TABLE is executed by an ensure_table call whose
\* column_types is given with a length other than that of columns.
C2_MismatchCreatesNothing ==
    \A i \in 1..Len(log) :
        (log[i].op = "CREATE" /\ log[i].types.given)
            => Len(log[i].types.types) = Len(log[i].columns)

\* C3 (as claimed): every purchases row whose vendor and brand coerce and whose
\* purchase price is > 0 has a row in the result for its (vendor, brand), and
\* with no matching sales and freight its sales and freight figures are 0.
C3_EveryQualifyingPurchaseHasRow ==
    ResultReady =>
        \A i \in RowIds(db["purchases"]) :
            Qualifies(i) =>
                /\ RowsFor(i) # {}
                /\ NoSalesNoFreight(i) =>
                      \A k \in RowsFor(i) : SalesAndFreightZero(k)

\* C3 (amended): the same for every such purchases row whose Brand is carried
\* by at least one purchase_prices row.
C3_EveryPricedPurchaseHasRow ==
    ResultReady =>
        \A i \in RowIds(db["purchases"]) :
            (Qualifies(i) /\ HasPrice(i)) =>
                /\ RowsFor(i) # {}
                /\ NoSalesNoFreight(i) =>
                      \A k \in RowsFor(i) : SalesAndFreightZero(k)

\* C3 witness: the result is there for a qualifying, priced purchases row that
\* no sales row and no freight row matches.
C3_Witness ==
    /\ ResultReady
    /\ \E i \in RowIds(db["purchases"]) :
          Qualifies(i) /\ HasPrice(i) /\ NoSalesNoFreight(i)

\* C4: in every row of the summary table a zero TotalSalesDollars goes with a
\* zero ProfitMargin, a zero TotalPurchaseQuantity with a zero StockTurnover,
\* a zero TotalPurchaseDollars with a zero SalesToPurchaseRatio; and the
\* aggregation never fails on a division by zero.
C4_ZeroDenominatorsGiveZero ==
    /\ failure # "div_by_zero"
    /\ \A k \in 1..Len(SummaryRows) :
          LET r == SummaryRows[k]
          IN  /\ Field(r, "TotalSalesDollars") = 0 => Field(r, "ProfitMargin") = 0
              /\ Field(r, "TotalPurchaseQuantity") = 0
                    => Field(r, "StockTurnover") = 0
              /\ Field(r, "TotalPurchaseDollars") = 0
                    => Field(r, "SalesToPurchaseRatio") = 0

\* C4 witness: a committed summary row computed from a sales group whose
\* dollars sum to zero and a purchase group whose quantity and dollars are zero.
C4_Witness ==
    /\ pc = "done" /\ unit = "aggregate"
    /\ SalesSummary(db) # {}
    /\ \E k \in 1..Len(SummaryRows) :
          /\ Field(SummaryRows[k], "TotalSalesDollars") = 0
          /\ Field(SummaryRows[k], "TotalPurchaseQuantity") = 0
          /\ Field(SummaryRows[k], "TotalPurchaseDollars") = 0

\* C5 (as claimed): in the summary table as inserted, TotalPurchaseDollars does
\* not increase from a row to the next.
C5_SummaryNonIncreasing ==
    \A k \in 1..Len(SummaryRows) - 1 :
        Field(SummaryRows[k], "TotalPurchaseDollars")
            >= Field(SummaryRows[k + 1], "TotalPurchaseDollars")

\* C6 (as claimed): within one ingestion run of main no table is dropped after
\* it was created (and possibly filled) earlier in the run: each table is
\* provisioned at most once, before its inserts.
C6_ProvisionedOncePerRun ==
    unit = "main" =>
        \A i, j \in 1..Len(log) :
            (i < j /\ FromFile(log[i]) /\ FromFile(log[j])
               /\ log[i].table = log[j].table)
                => ~(log[i].op \in {"CREATE", "INSERT"} /\ log[j].op = "DROP")

\* C7 (as claimed): a zero-byte file is a no-op in both loaders: no statement
\* is executed for it and no error is raised.
C7_ZeroByteFileIsNoOp ==
    /\ failure # "EmptyDataError"
    /\ \A i \in 1..Len(log) :
          FromFile(log[i]) => Len(EntryAt(log[i].src).lines) > 0

\* C8: after every committed ingestion of the same unchanged input set the
\* store holds what it held after the first: same tables, columns and rows.
C8_IngestionIdempotent ==
    \A i \in 1..Len(ingestHistory) : ingestHistory[i] = ingestHistory[1]

\* C8 witness: a second ingestion has committed and a table holds rows.
C8_Witness ==
    /\ Len(ingestHistory) >= 2
    /\ \E t \in DOMAIN committed : Len(committed[t].rows) > 0

\* C9 (as claimed): every row of the summary table has
\* GrossProfit = TotalSalesDollars - TotalPurchaseDollars on its own values.
C9_GrossProfitIdentity ==
    \A k \in 1..Len(SummaryRows) :
        Field(SummaryRows[k], "GrossProfit")
            = Field(SummaryRows[k], "TotalSalesDollars")
              - Field(SummaryRows[k], "TotalPurchaseDollars")

\* C10 (as claimed): in every row of the result TotalPurchaseQuantity and
\* TotalPurchaseDollars are the sums of the coerced Quantity and Dollars over
\* the qualifying purchases rows of its group, each row counted once.
C10_PurchaseSumsCountRowsOnce ==
    ResultReady =>
        \A k \in 1..Len(df) :
            /\ Field(df[k], "TotalPurchaseQuantity") = QuantityOnce(k)
            /\ Field(df[k], "TotalPurchaseDollars") = DollarsOnce(k)

====
